---- MODULE Spec2Model ----
(***************************************************************************)
(* School Management API: the two request handlers (POST /addSchool,       *)
(* GET /listSchools), their validation, the haversine distance and sort,   *)
(* the mysql2 connection pool they share and the start-up sequence         *)
(* (app.listen -> initializeDatabase).                                     *)
(*                                                                         *)
(* The repository holds the program twice: src/index.js (everything in one *)
(* file) and src/unnamed/part_000 + src/controllers/schoolController.js    *)
(* (the same handlers behind a router).  The variable entry says which of  *)
(* the two is running; the handlers differ only in the 500 response.       *)
(*                                                                         *)
(* JavaScript values are records [t, n, s]: t is the typeof-like tag, n    *)
(* the number (whole degrees), s the text as a sequence of one-character   *)
(* strings.  A parsed number is [nan, v].                                  *)
(***************************************************************************)
EXTENDS Integers, Sequences, FiniteSets, TLC

(***************************************************************************)
(* Bounds of the model.                                                    *)
(***************************************************************************)
\* handlers that may be in flight at the same time
MaxInFlight == 2
\* rows the schools table may reach
MaxRows == 2
\* datastore faults (a refused connection, a failed query) injected in Spec
MaxFaults == 1
\* rows the schools table may reach in PoolSpec
PoolRows == 1
\* terms of the sine series and halvings of a bisection (numerical precision)
TaylorTerms == 9
BisectSteps == 29

(***************************************************************************)
(* JavaScript values.                                                      *)
(***************************************************************************)
Undefined == [t |-> "undefined", n |-> 0, s |-> <<>>]
Null == [t |-> "object", n |-> 0, s |-> <<>>]
Num(k) == [t |-> "number", n |-> k, s |-> <<>>]
Str(chars) == [t |-> "string", n |-> 0, s |-> chars]

NaN == [nan |-> TRUE, v |-> 0]
Number(k) == [nan |-> FALSE, v |-> k]

Digits == {"0", "1", "2", "3", "4", "5", "6", "7", "8", "9"}
WhiteSpace == {" "}

DigitValue(c) ==
    CASE c = "0" -> 0 [] c = "1" -> 1 [] c = "2" -> 2 [] c = "3" -> 3
      [] c = "4" -> 4 [] c = "5" -> 5 [] c = "6" -> 6 [] c = "7" -> 7
      [] c = "8" -> 8 [] c = "9" -> 9

\* !v : undefined, null, 0 and "" are falsy; every other value here is truthy
Falsy(v) ==
    CASE v.t = "undefined" -> TRUE
      [] v.t = "object" -> TRUE
      [] v.t = "number" -> v.n = 0
      [] v.t = "string" -> v.s = <<>>
      [] OTHER -> FALSE

RECURSIVE TrimStart(_)
TrimStart(s) ==
    IF s # <<>> /\ Head(s) \in WhiteSpace THEN TrimStart(Tail(s)) ELSE s

RECURSIVE TrimEnd(_)
TrimEnd(s) ==
    IF s # <<>> /\ s[Len(s)] \in WhiteSpace
      THEN TrimEnd(SubSeq(s, 1, Len(s) - 1))
      ELSE s

\* String.prototype.trim
trim(s) == TrimEnd(TrimStart(s))

RECURSIVE ParseDigits(_, _, _)
\* the longest run of digits at the head of s: <<value, digits read>>
ParseDigits(s, acc, n) ==
    IF s # <<>> /\ Head(s) \in Digits
      THEN ParseDigits(Tail(s), 10 * acc + DigitValue(Head(s)), n + 1)
      ELSE <<acc, n>>

\* parseFloat of a text: leading white space is skipped, an optional sign and
\* the longest run of digits are read, whatever follows is ignored; no digit
\* gives NaN.  (The texts of the model hold no ".", "e" or "Infinity".)
ParseFloatText(s) ==
    LET t == TrimStart(s)
        signed == t # <<>> /\ Head(t) \in {"-", "+"}
        u == IF signed THEN Tail(t) ELSE t
        d == ParseDigits(u, 0, 0)
    IN IF d[2] = 0 THEN NaN
       ELSE IF signed /\ Head(t) = "-" THEN Number(-d[1]) ELSE Number(d[1])

\* parseFloat(v): v is converted to text first, so a number parses to itself
\* and undefined, null give NaN
parseFloat(v) ==
    CASE v.t = "number" -> Number(v.n)
      [] v.t = "string" -> ParseFloatText(v.s)
      [] OTHER -> NaN

isNaN(x) == x.nan

(***************************************************************************)
(* Haversine distance, in fixed point: angles and the unit interval carry  *)
(* eight decimal digits (FX), products are formed from four-digit halves   *)
(* so that no intermediate leaves 32 bits.  The result is in metres.       *)
(***************************************************************************)
FX == 10^8
HalfWord == 10^4
\* Math.PI, eight decimal digits
PI == 314159265
\* Radius of the Earth in km
R == 6371

Abs(x) == IF x < 0 THEN -x ELSE x

MulFx(a, b) ==
    LET x == Abs(a)
        y == Abs(b)
        xh == x \div HalfWord
        xl == x % HalfWord
        yh == y \div HalfWord
        yl == y % HalfWord
        p == xh * yh + (xh * yl + xl * yh + (xl * yl) \div HalfWord) \div HalfWord
    IN IF (a < 0) = (b < 0) THEN p ELSE -p

RECURSIVE SinSeries(_, _, _, _)
SinSeries(x2, term, k, acc) ==
    IF k > TaylorTerms \/ term = 0 THEN acc
    ELSE LET next == MulFx(term, x2) \div ((2 * k) * (2 * k + 1))
         IN SinSeries(x2, next, k + 1, IF k % 2 = 1 THEN acc - next ELSE acc + next)

\* Math.sin for |x| <= PI
Sin(x) ==
    LET y == Abs(x)
        z == IF 2 * y > PI THEN PI - y ELSE y
        s == SinSeries(MulFx(z, z), z, 1, z)
    IN IF x < 0 THEN -s ELSE s

\* Math.cos for |x| <= PI
Cos(x) == Sin(PI \div 2 - Abs(x))

\* deg * Math.PI / 180
Rad(deg) ==
    LET d == Abs(deg)
        r == d * (PI \div 180) + (d * (PI % 180)) \div 180
    IN IF deg < 0 THEN -r ELSE r

Half(x) == IF x < 0 THEN -((-x) \div 2) ELSE x \div 2

RECURSIVE SqrtBisect(_, _, _, _)
SqrtBisect(a, lo, hi, n) ==
    IF n = 0 \/ hi - lo <= 1 THEN lo
    ELSE LET mid == (lo + hi) \div 2
         IN IF MulFx(mid, mid) <= a THEN SqrtBisect(a, mid, hi, n - 1)
                                    ELSE SqrtBisect(a, lo, mid, n - 1)

\* Math.sqrt on [0, 1]
Sqrt(a) ==
    IF a <= 0 THEN 0 ELSE IF a >= FX THEN FX ELSE SqrtBisect(a, 0, FX, BisectSteps)

RECURSIVE AtanBisect(_, _, _, _, _)
AtanBisect(y, x, lo, hi, n) ==
    IF n = 0 \/ hi - lo <= 1 THEN lo
    ELSE LET mid == (lo + hi) \div 2
         IN IF MulFx(Sin(mid), x) <= MulFx(Cos(mid), y)
              THEN AtanBisect(y, x, mid, hi, n - 1)
              ELSE AtanBisect(y, x, lo, mid, n - 1)

\* Math.atan2(y, x) for y, x >= 0: the angle whose tangent is y / x
Atan2(y, x) ==
    IF y = 0 THEN 0
    ELSE IF x = 0 THEN PI \div 2
    ELSE AtanBisect(y, x, 0, PI \div 2, BisectSteps)

\* calculateDistance: R * c, in metres
calculateDistance(lat1, lon1, lat2, lon2) ==
    LET dLat == Rad(lat2 - lat1)
        dLon == Rad(lon2 - lon1)
        sLat == Sin(Half(dLat))
        sLon == Sin(Half(dLon))
        a == MulFx(sLat, sLat)
               + MulFx(MulFx(MulFx(Cos(Rad(lat1)), Cos(Rad(lat2))), sLon), sLon)
        c == 2 * Atan2(Sqrt(a), Sqrt(FX - a))
    IN R * (c \div 10^5) + (R * (c % 10^5)) \div 10^5

\* parseFloat(distance.toFixed(2)): metres rounded to hundredths of a km
toFixed2(metres) == (metres + 5) \div 10

(***************************************************************************)
(* Validation.                                                             *)
(***************************************************************************)
NameError == "Name is required and must be a non-empty string"
AddressError == "Address is required and must be a non-empty string"
LatitudeRequired == "Latitude is required and must be a valid number"
LatitudeRange == "Latitude must be between -90 and 90"
LongitudeRequired == "Longitude is required and must be a valid number"
LongitudeRange == "Longitude must be between -180 and 180"

\* !data.f || typeof data.f !== "string" || data.f.trim() === ""
BadText(v) == Falsy(v) \/ v.t # "string" \/ trim(v.s) = <<>>

\* !data.f || isNaN(parseFloat(data.f))
BadNumber(v) == Falsy(v) \/ isNaN(parseFloat(v))

\* A validator that stops at the first failing rule (what C2 excludes).
validateFirstErrorOnly(data) ==
    LET lat == parseFloat(data.latitude)
        lon == parseFloat(data.longitude)
    IN IF BadText(data.name) THEN <<NameError>>
       ELSE IF BadText(data.address) THEN <<AddressError>>
       ELSE IF BadNumber(data.latitude) THEN <<LatitudeRequired>>
       ELSE IF lat.v < -90 \/ lat.v > 90 THEN <<LatitudeRange>>
       ELSE IF BadNumber(data.longitude) THEN <<LongitudeRequired>>
       ELSE IF lon.v < -180 \/ lon.v > 180 THEN <<LongitudeRange>>
       ELSE <<>>

\* A validator whose coordinate rules drop the falsy test, so that the number
\* 0 is a coordinate like any other (what C4's zero rule excludes).
validateZeroAccepted(data) ==
    LET lat == parseFloat(data.latitude)
        lon == parseFloat(data.longitude)
    IN (IF BadText(data.name) THEN <<NameError>> ELSE <<>>)
       \o (IF BadText(data.address) THEN <<AddressError>> ELSE <<>>)
       \o (IF isNaN(lat) THEN <<LatitudeRequired>>
           ELSE IF lat.v < -90 \/ lat.v > 90 THEN <<LatitudeRange>> ELSE <<>>)
       \o (IF isNaN(lon) THEN <<LongitudeRequired>>
           ELSE IF lon.v < -180 \/ lon.v > 180 THEN <<LongitudeRange>> ELSE <<>>)

validateSchoolInput(data) ==
    LET lat == parseFloat(data.latitude)
        lon == parseFloat(data.longitude)
    IN (IF BadText(data.name) THEN <<NameError>> ELSE <<>>)
       \o (IF BadText(data.address) THEN <<AddressError>> ELSE <<>>)
       \o (IF BadNumber(data.latitude) THEN <<LatitudeRequired>>
           ELSE IF lat.v < -90 \/ lat.v > 90 THEN <<LatitudeRange>> ELSE <<>>)
       \o (IF BadNumber(data.longitude) THEN <<LongitudeRequired>>
           ELSE IF lon.v < -180 \/ lon.v > 180 THEN <<LongitudeRange>> ELSE <<>>)

\* A location test without the upper latitude bound (what C6 excludes).
invalidLocationNoUpperLatitude(userLat, userLon) ==
    \/ isNaN(userLat)
    \/ isNaN(userLon)
    \/ userLat.v < -90
    \/ userLon.v < -180
    \/ userLon.v > 180

\* the condition of listSchools' 400
invalidLocation(userLat, userLon) ==
    \/ isNaN(userLat)
    \/ isNaN(userLon)
    \/ userLat.v < -90
    \/ userLat.v > 90
    \/ userLon.v < -180
    \/ userLon.v > 180

(***************************************************************************)
(* Distance annotation and sort of listSchools.                            *)
(***************************************************************************)
\* The coordinates the inputs below lead to, and calculateDistance on them,
\* evaluated once (@@ makes the table explicit); any other coordinates are
\* computed when they occur.
CachedLatitudes == {-90, 0, 10, 12}
CachedLongitudes == {-20, 0, 20}
CachedPoints == CachedLatitudes \X CachedLongitudes
DistanceCache ==
    [q \in CachedPoints \X CachedPoints |->
       calculateDistance(q[1][1], q[1][2], q[2][1], q[2][2])] @@ <<>>

distanceBetween(lat1, lon1, lat2, lon2) ==
    IF <<lat1, lon1>> \in CachedPoints /\ <<lat2, lon2>> \in CachedPoints
      THEN DistanceCache[<<<<lat1, lon1>>, <<lat2, lon2>>>>]
      ELSE calculateDistance(lat1, lon1, lat2, lon2)

withDistance(school, userLat, userLon) ==
    [id |-> school.id, name |-> school.name, address |-> school.address,
     latitude |-> school.latitude, longitude |-> school.longitude,
     distance |-> toFixed2(distanceBetween(userLat, userLon,
                                           school.latitude, school.longitude))]

\* schools.map(...)
schoolsWithDistance(rows, userLat, userLon) ==
    [i \in 1..Len(rows) |-> withDistance(rows[i], userLat, userLon)]

\* (a, b) => a.distance - b.distance
compare(a, b) == a.distance - b.distance

RECURSIVE InsertSorted(_, _)
\* x goes behind every element that does not compare greater than it
InsertSorted(sorted, x) ==
    IF sorted = <<>> THEN <<x>>
    ELSE IF compare(Head(sorted), x) <= 0
      THEN <<Head(sorted)>> \o InsertSorted(Tail(sorted), x)
      ELSE <<x>> \o sorted

RECURSIVE SortFrom(_, _)
SortFrom(list, sorted) ==
    IF list = <<>> THEN sorted
    ELSE SortFrom(Tail(list), InsertSorted(sorted, Head(list)))

\* A sort by distance that returns equal distances in the reverse of the
\* datastore's order (what C5's tie rule excludes).
sortTiesReversed(list) ==
    SortFrom([i \in 1..Len(list) |-> list[Len(list) + 1 - i]], <<>>)

\* Array.prototype.sort with the comparator above (a stable sort)
sortByDistance(list) == SortFrom(list, <<>>)

(***************************************************************************)
(* State.                                                                  *)
(***************************************************************************)
VARIABLES
    entry,          \* the running entry file: "index" (src/index.js) or "app"
    NODE_ENV,       \* process.env.NODE_ENV
    running,        \* FALSE once process.exit(1) has been called
    tableExists,    \* the schools table exists in the datastore
    schools,        \* the rows of the schools table, in retrieval order
    autoIncrement,  \* the id the next inserted row gets
    pool,           \* the connection pool: connections out, callers waiting
    task,           \* task[0]: initializeDatabase; task[1..]: request handlers
    faults          \* datastore faults injected so far

vars == <<entry, NODE_ENV, running, tableExists, schools, autoIncrement, pool,
          task, faults>>

\* connectionLimit of the pool
connectionLimit == 10

Handlers == 1..MaxInFlight
InitTask == 0

NoInput == [name |-> Undefined, address |-> Undefined,
            latitude |-> Undefined, longitude |-> Undefined]
NoResult == [ok |-> TRUE, insertId |-> 0, rows |-> <<>>, error |-> ""]
\* the error pool.getConnection() rejects with
Refused == [ok |-> FALSE, insertId |-> 0, rows |-> <<>>, error |-> "connect ECONNREFUSED"]
NoResponse == [status |-> 0, success |-> FALSE, message |-> "", errors |-> <<>>,
               schoolId |-> 0, count |-> 0, schools |-> <<>>, error |-> <<>>]

\* a handler that has not started: kind is "add", "list" or "init"; pc is the
\* await the handler is suspended at; conn is its connection: "none", "queued"
\* (waiting in the pool's queue), "connecting" (taken from the pool, which may
\* have to open it), "granted" (handed over by a release) or "held"
IdleTask(kind) ==
    [kind |-> kind, pc |-> "idle", input |-> NoInput, conn |-> "none",
     result |-> NoResult, resp |-> NoResponse,
     acquired |-> 0, queries |-> 0, released |-> 0, responses |-> 0]

(***************************************************************************)
(* The pool: waitForConnections true, connectionLimit 10, queueLimit 0.    *)
(***************************************************************************)
\* pool.getConnection(): a connection if fewer than the limit are out,
\* otherwise the caller joins the unbounded queue
poolAcquire(p, t) ==
    IF p.out < connectionLimit
      THEN [p EXCEPT !.out = @ + 1]
      ELSE [p EXCEPT !.queue = Append(@, t)]

acquiredConn(p) == IF p.out < connectionLimit THEN "connecting" ELSE "queued"

\* connection.release(): the connection goes to the first waiting caller, or
\* back to the pool
poolRelease(p) ==
    IF p.queue # <<>>
      THEN [p EXCEPT !.queue = Tail(@)]
      ELSE [p EXCEPT !.out = @ - 1]

\* the tasks after a release: the first waiting caller is granted
grantNext(p, tk) ==
    IF p.queue # <<>>
      THEN [tk EXCEPT ![Head(p.queue)].conn = "granted"]
      ELSE tk

\* a connection that could not be opened leaves the pool; the first waiting
\* caller, if any, asks again and takes its place
poolRemove(p) ==
    IF p.queue # <<>>
      THEN [p EXCEPT !.queue = Tail(@)]
      ELSE [p EXCEPT !.out = @ - 1]

retryNext(p, tk) ==
    IF p.queue # <<>>
      THEN [tk EXCEPT ![Head(p.queue)].conn = "connecting"]
      ELSE tk

\* the outcomes the datastore may give while fewer than cap faults happened
Outcomes(cap) == {"ok"} \cup (IF faults < cap THEN {"fault"} ELSE {})

(***************************************************************************)
(* Responses.                                                              *)
(***************************************************************************)
\* A 500 body that always carries the underlying message (what C9 excludes).
errorDetailAlways(message) == <<message>>

\* error: process.env.NODE_ENV === "development" ? error.message : undefined
\* (src/index.js); the controller's 500 carries no error key
errorDetail(message) ==
    IF entry = "index" /\ NODE_ENV = "development" THEN <<message>> ELSE <<>>

ValidationFailed(errors) ==
    [NoResponse EXCEPT !.status = 400, !.errors = errors]

InvalidLocation ==
    [NoResponse EXCEPT !.status = 400,
                       !.message = "Invalid latitude or longitude provided"]

ServerError(message) ==
    [NoResponse EXCEPT !.status = 500, !.message = "Internal server error",
                       !.error = errorDetail(message)]

Created(insertId) ==
    [NoResponse EXCEPT !.status = 201, !.success = TRUE,
                       !.message = "School added successfully",
                       !.schoolId = insertId]

Listed(list) ==
    [NoResponse EXCEPT !.status = 200, !.success = TRUE,
                       !.count = Len(list), !.schools = list]

respond(tk, t, r) ==
    [tk EXCEPT ![t].pc = "responded", ![t].resp = r, ![t].responses = @ + 1]

(***************************************************************************)
(* Inputs: request bodies and query strings.                               *)
(***************************************************************************)
ValidBody ==
    [name |-> Str(<<" ", "a", " ">>), address |-> Str(<<"x">>),
     latitude |-> Num(10), longitude |-> Str(<<"2", "0">>)]

NameValues == {Undefined, Str(<<" ">>), Num(7)}
AddressValues == {Null, Str(<<>>)}
LatitudeValues ==
    {Undefined, Num(0), Num(-91), Str(<<"0">>), Str(<<"1", "2", "a", "b", "c">>),
     Str(<<"a", "b", "c">>), Str(<<"9", "1">>)}
LongitudeValues ==
    {Num(0), Num(181), Str(<<"-", "1", "8", "1">>), Str(<<"x">>)}

AddBodies ==
    {ValidBody}
      \cup {[ValidBody EXCEPT !.name = v] : v \in NameValues}
      \cup {[ValidBody EXCEPT !.address = v] : v \in AddressValues}
      \cup {[ValidBody EXCEPT !.latitude = v] : v \in LatitudeValues}
      \cup {[ValidBody EXCEPT !.longitude = v] : v \in LongitudeValues}
      \cup {NoInput,
            [ValidBody EXCEPT !.address = Null, !.latitude = Str(<<"9", "1">>)]}

\* req.query: each parameter is a text, or absent
ValidQuery ==
    [NoInput EXCEPT !.latitude = Str(<<"1", "0">>), !.longitude = Str(<<"0">>)]

QueryLatitudes ==
    {Undefined, Str(<<"0">>), Str(<<"2", "0", "0">>), Str(<<"a", "b", "c">>),
     Str(<<"-", "9", "1">>)}
QueryLongitudes ==
    {Undefined, Str(<<"1", "8", "1">>), Str(<<"-", "1", "8", "1">>)}

ListQueries ==
    {ValidQuery}
      \cup {[ValidQuery EXCEPT !.latitude = v] : v \in QueryLatitudes}
      \cup {[ValidQuery EXCEPT !.longitude = v] : v \in QueryLongitudes}

\* the inputs of the pool specification: one good body, one good query
PoolBodies == {ValidBody, NoInput}
PoolQueries == {ValidQuery, NoInput}

\* a table left by earlier runs of the program
SeededTable ==
    << [id |-> 1, name |-> <<"n">>, address |-> <<"x">>, latitude |-> -90, longitude |-> 20],
       [id |-> 2, name |-> <<"a">>, address |-> <<"x">>, latitude |-> 10, longitude |-> 20],
       [id |-> 3, name |-> <<"b">>, address |-> <<"y">>, latitude |-> 10, longitude |-> -20] >>

(***************************************************************************)
(* Request handlers.                                                       *)
(***************************************************************************)
Free(t) == task[t].pc = "idle"

\* res.json() writes the response within the step that builds it: a response
\* on record is sent before anything else runs
Quiet == \A t \in Handlers : task[t].pc # "responded"

\* a request is taken by the lowest handler that is not in flight
FreeSlot(t) == Free(t) /\ \A u \in Handlers : u < t => ~Free(u)

\* INSERTs on their way to the datastore
PendingInserts ==
    Cardinality({u \in Handlers : task[u].kind = "add"
                                   /\ task[u].pc \in {"awaitConnection", "awaitQuery"}})

\* POST /addSchool up to its first await: validation, then pool.getConnection()
AddSchoolReceive(t, body, rowCap) ==
    /\ running
    /\ Quiet
    /\ FreeSlot(t)
    /\ LET validationErrors == validateSchoolInput(body)
           fresh == [IdleTask("add") EXCEPT !.input = body]
       IN IF Len(validationErrors) > 0
            THEN /\ task' = respond([task EXCEPT ![t] = fresh], t,
                                    ValidationFailed(validationErrors))
                 /\ pool' = pool
            ELSE /\ Len(schools) + PendingInserts < rowCap
                 /\ pool' = poolAcquire(pool, t)
                 /\ task' = [task EXCEPT ![t] =
                               [fresh EXCEPT !.pc = "awaitConnection",
                                             !.conn = acquiredConn(pool)]]
    /\ UNCHANGED <<entry, NODE_ENV, running, tableExists, schools, autoIncrement, faults>>

\* GET /listSchools up to its first await
ListSchoolsReceive(t, query) ==
    /\ running
    /\ Quiet
    /\ FreeSlot(t)
    /\ LET userLat == parseFloat(query.latitude)
           userLon == parseFloat(query.longitude)
           fresh == [IdleTask("list") EXCEPT !.input = query]
       IN IF invalidLocation(userLat, userLon)
            THEN /\ task' = respond([task EXCEPT ![t] = fresh], t, InvalidLocation)
                 /\ pool' = pool
            ELSE /\ pool' = poolAcquire(pool, t)
                 /\ task' = [task EXCEPT ![t] =
                               [fresh EXCEPT !.pc = "awaitConnection",
                                             !.conn = acquiredConn(pool)]]
    /\ UNCHANGED <<entry, NODE_ENV, running, tableExists, schools, autoIncrement, faults>>

\* await pool.getConnection() settles in a handler: with a connection, on
\* which the handler sends its query at once, or with an error, which the
\* handler's catch answers with 500
Connected(t, cap) ==
    /\ running
    /\ Quiet
    /\ task[t].pc = "awaitConnection"
    /\ task[t].conn \in {"connecting", "granted"}
    /\ \E o \in (IF task[t].conn = "connecting" THEN Outcomes(cap) ELSE {"ok"}) :
         IF o = "ok"
           THEN /\ task' = [task EXCEPT ![t].pc = "awaitQuery", ![t].conn = "held",
                                        ![t].acquired = @ + 1, ![t].queries = @ + 1]
                /\ UNCHANGED <<pool, faults>>
           ELSE /\ task' = respond(retryNext(pool, [task EXCEPT ![t].conn = "none",
                                                                 ![t].result = Refused]),
                                   t, ServerError(Refused.error))
                /\ pool' = poolRemove(pool)
                /\ faults' = faults + 1
    /\ UNCHANGED <<entry, NODE_ENV, running, tableExists, schools, autoIncrement>>

AddSchoolConnected(t, cap) == task[t].kind = "add" /\ Connected(t, cap)

ListSchoolsConnected(t, cap) == task[t].kind = "list" /\ Connected(t, cap)

\* the row an INSERT of addSchool writes
insertedRow(data, id) ==
    [id |-> id, name |-> trim(data.name.s), address |-> trim(data.address.s),
     latitude |-> parseFloat(data.latitude).v,
     longitude |-> parseFloat(data.longitude).v]

\* the datastore executes the query a task sent: CREATE TABLE IF NOT EXISTS,
\* INSERT or SELECT *; INSERT and SELECT fail on a missing table
DatastoreExecute(t, cap) ==
    /\ running
    /\ Quiet
    /\ task[t].pc = "awaitQuery"
    /\ \E o \in Outcomes(cap) :
         LET kind == task[t].kind
             failed == o = "fault" \/ (kind # "init" /\ ~tableExists)
             message == IF o = "fault" THEN "read ECONNRESET"
                        ELSE "Table 'schools' doesn't exist"
             done(res) == [task EXCEPT ![t].pc = "awaitResult", ![t].result = res]
         IN /\ faults' = IF o = "fault" THEN faults + 1 ELSE faults
            /\ IF failed
                 THEN /\ task' = done([NoResult EXCEPT !.ok = FALSE, !.error = message])
                      /\ UNCHANGED <<tableExists, schools, autoIncrement>>
                 ELSE IF kind = "init"
                   THEN /\ tableExists' = TRUE
                        /\ task' = done(NoResult)
                        /\ UNCHANGED <<schools, autoIncrement>>
                 ELSE IF kind = "add"
                   THEN /\ schools' = Append(schools, insertedRow(task[t].input, autoIncrement))
                        /\ autoIncrement' = autoIncrement + 1
                        /\ task' = done([NoResult EXCEPT !.insertId = autoIncrement])
                        /\ UNCHANGED tableExists
                 ELSE /\ task' = done([NoResult EXCEPT !.rows = schools])
                      /\ UNCHANGED <<tableExists, schools, autoIncrement>>
    /\ UNCHANGED <<entry, NODE_ENV, running, pool>>

\* addSchool after await connection.query(): release, then 201; a rejected
\* query jumps to the catch, past connection.release()
AddSchoolQueryDone(t) ==
    /\ running
    /\ Quiet
    /\ task[t].kind = "add"
    /\ task[t].pc = "awaitResult"
    /\ IF task[t].result.ok
         THEN /\ pool' = poolRelease(pool)
              /\ task' = respond(grantNext(pool, [task EXCEPT ![t].conn = "none",
                                                              ![t].released = @ + 1]),
                                 t, Created(task[t].result.insertId))
         ELSE /\ task' = respond(task, t, ServerError(task[t].result.error))
              /\ pool' = pool
    /\ UNCHANGED <<entry, NODE_ENV, running, tableExists, schools, autoIncrement, faults>>

\* listSchools after await connection.query(): release, map, sort, 200; a
\* rejected query jumps to the catch, past connection.release()
ListSchoolsQueryDone(t) ==
    /\ running
    /\ Quiet
    /\ task[t].kind = "list"
    /\ task[t].pc = "awaitResult"
    /\ IF task[t].result.ok
         THEN LET userLat == parseFloat(task[t].input.latitude)
                  userLon == parseFloat(task[t].input.longitude)
                  list == schoolsWithDistance(task[t].result.rows, userLat.v, userLon.v)
              IN /\ pool' = poolRelease(pool)
                 /\ task' = respond(grantNext(pool, [task EXCEPT ![t].conn = "none",
                                                                 ![t].released = @ + 1]),
                                    t, Listed(sortByDistance(list)))
         ELSE /\ task' = respond(task, t, ServerError(task[t].result.error))
              /\ pool' = pool
    /\ UNCHANGED <<entry, NODE_ENV, running, tableExists, schools, autoIncrement, faults>>

\* the response of handler t has gone out and the handler is over
ResponseSent(t) ==
    /\ running
    /\ task[t].pc = "responded"
    /\ task' = [task EXCEPT ![t] = IdleTask(task[t].kind)]
    /\ UNCHANGED <<entry, NODE_ENV, running, tableExists, schools, autoIncrement,
                   pool, faults>>

(***************************************************************************)
(* Start-up: app.listen's callback awaits initializeDatabase.              *)
(***************************************************************************)
\* initializeDatabase: await pool.getConnection() settles; an error is caught
\* and ends the process
InitConnected(cap) ==
    /\ running
    /\ Quiet
    /\ task[InitTask].pc = "awaitConnection"
    /\ task[InitTask].conn \in {"connecting", "granted"}
    /\ \E o \in (IF task[InitTask].conn = "connecting" THEN Outcomes(cap) ELSE {"ok"}) :
         IF o = "ok"
           THEN /\ task' = [task EXCEPT ![InitTask].pc = "awaitQuery",
                                        ![InitTask].conn = "held",
                                        ![InitTask].acquired = @ + 1,
                                        ![InitTask].queries = @ + 1]
                /\ UNCHANGED <<pool, faults, running>>
           ELSE /\ running' = FALSE
                /\ pool' = poolRemove(pool)
                /\ faults' = faults + 1
                /\ task' = retryNext(pool, [task EXCEPT ![InitTask].conn = "none",
                                                        ![InitTask].result = Refused])
    /\ UNCHANGED <<entry, NODE_ENV, tableExists, schools, autoIncrement>>

\* initializeDatabase after await connection.query(CREATE TABLE ...)
InitQueryDone ==
    /\ running
    /\ Quiet
    /\ task[InitTask].pc = "awaitResult"
    /\ IF task[InitTask].result.ok
         THEN /\ pool' = poolRelease(pool)
              /\ task' = grantNext(pool, [task EXCEPT ![InitTask].pc = "done",
                                                      ![InitTask].conn = "none",
                                                      ![InitTask].released = @ + 1])
              /\ running' = running
         ELSE /\ running' = FALSE
              /\ UNCHANGED <<pool, task>>
    /\ UNCHANGED <<entry, NODE_ENV, tableExists, schools, autoIncrement, faults>>

(***************************************************************************)
(* Specifications.                                                         *)
(***************************************************************************)
\* app.listen has called back and initializeDatabase waits for its connection
InitCommon ==
    /\ running = TRUE
    /\ pool = [out |-> 1, queue |-> <<>>]
    /\ task = [t \in {InitTask} \cup Handlers |->
                 IF t = InitTask
                   THEN [IdleTask("init") EXCEPT !.pc = "awaitConnection",
                                                 !.conn = "connecting"]
                   ELSE IdleTask("add")]
    /\ faults = 0

\* Spec starts against a datastore that holds the table (CREATE TABLE IF NOT
\* EXISTS then changes nothing); PoolSpec starts against a fresh one as well.
Init ==
    /\ InitCommon
    /\ entry \in {"index", "app"}
    \* only src/index.js reads NODE_ENV
    /\ NODE_ENV \in (IF entry = "index" THEN {"development", "production"}
                                        ELSE {"development"})
    /\ tableExists = TRUE
    /\ schools \in (IF tableExists THEN {<<>>, SeededTable} ELSE {<<>>})
    /\ autoIncrement = Len(schools) + 1

Next ==
    \/ \E t \in Handlers, body \in AddBodies : AddSchoolReceive(t, body, MaxRows)
    \/ \E t \in Handlers, query \in ListQueries : ListSchoolsReceive(t, query)
    \/ \E t \in Handlers : AddSchoolConnected(t, MaxFaults)
    \/ \E t \in Handlers : ListSchoolsConnected(t, MaxFaults)
    \/ \E t \in {InitTask} \cup Handlers : DatastoreExecute(t, MaxFaults)
    \/ \E t \in Handlers : AddSchoolQueryDone(t)
    \/ \E t \in Handlers : ListSchoolsQueryDone(t)
    \/ \E t \in Handlers : ResponseSent(t)
    \/ InitConnected(MaxFaults)
    \/ InitQueryDone

Spec == Init /\ [][Next]_vars

(***************************************************************************)
(* The pool under load: a fresh or an existing datastore, two inputs per   *)
(* route, and as many datastore faults as the pool has connections.  The   *)
(* event loop runs every continuation that is ready, and the datastore     *)
(* answers every query it was sent: fairness of each task's steps.         *)
(***************************************************************************)
PoolInit ==
    /\ InitCommon
    /\ entry = "index"
    /\ NODE_ENV = "production"
    /\ tableExists \in BOOLEAN
    /\ schools = <<>>
    /\ autoIncrement = 1

PoolNext ==
    \/ \E t \in Handlers, body \in PoolBodies : AddSchoolReceive(t, body, PoolRows)
    \/ \E t \in Handlers, query \in PoolQueries : ListSchoolsReceive(t, query)
    \/ \E t \in Handlers : AddSchoolConnected(t, connectionLimit)
    \/ \E t \in Handlers : ListSchoolsConnected(t, connectionLimit)
    \/ \E t \in {InitTask} \cup Handlers : DatastoreExecute(t, connectionLimit)
    \/ \E t \in Handlers : AddSchoolQueryDone(t)
    \/ \E t \in Handlers : ListSchoolsQueryDone(t)
    \/ \E t \in Handlers : ResponseSent(t)
    \/ InitConnected(connectionLimit)
    \/ InitQueryDone

\* the steps of task t that do not wait for a client
Continue(t) ==
    \/ AddSchoolConnected(t, connectionLimit)
    \/ ListSchoolsConnected(t, connectionLimit)
    \/ DatastoreExecute(t, connectionLimit)
    \/ AddSchoolQueryDone(t)
    \/ ListSchoolsQueryDone(t)
    \/ ResponseSent(t)

\* A continuation that is ready stays ready until it runs; the model holds it
\* back only for the step in which another handler's response goes out
\* (Quiet), so the fairness of its steps is strong fairness.
PoolFairness ==
    /\ \A t \in Handlers : SF_vars(Continue(t))
    /\ SF_vars(DatastoreExecute(InitTask, connectionLimit))
    /\ SF_vars(InitConnected(connectionLimit))
    /\ SF_vars(InitQueryDone)

PoolSpec == PoolInit /\ [][PoolNext]_vars /\ PoolFairness

(***************************************************************************)
(* Vocabulary of the properties, stated apart from the handlers' code.     *)
(***************************************************************************)
Responded(t) == task[t].pc = "responded"
Active(t) == task[t].pc # "idle"

\* a text with something other than white space in it
TextGiven(v) == v.t = "string" /\ \E i \in 1..Len(v.s) : v.s[i] \notin WhiteSpace

\* a value that reads as a number: a number, or a text that starts (after
\* white space and a sign) with a digit
ReadsAsNumber(v) ==
    \/ v.t = "number"
    \/ /\ v.t = "string"
       /\ \E i \in 1..Len(v.s) :
            /\ v.s[i] \in Digits
            /\ \A j \in 1..(i - 1) :
                 \/ v.s[j] \in WhiteSpace /\ \A k \in 1..j : v.s[k] \in WhiteSpace
                 \/ /\ v.s[j] \in {"-", "+"}
                    /\ j = i - 1
                    /\ \A k \in 1..(j - 1) : v.s[k] \in WhiteSpace

ValueOf(v) == parseFloat(v).v
InRange(v, bound) == ReadsAsNumber(v) /\ ValueOf(v) >= -bound /\ ValueOf(v) <= bound
OutOfRange(v, bound) == ReadsAsNumber(v) /\ ~InRange(v, bound)
NumberZero(v) == v.t = "number" /\ v.n = 0
TextZero(v) == v = Str(<<"0">>)

\* the rank of a validation message in the order name, address, latitude, longitude
Rank(m) ==
    CASE m = NameError -> 1
      [] m = AddressError -> 2
      [] m \in {LatitudeRequired, LatitudeRange} -> 3
      [] m \in {LongitudeRequired, LongitudeRange} -> 4
      [] OTHER -> 0

Has(errors, m) == \E i \in 1..Len(errors) : errors[i] = m

Ordered(errors) ==
    \A i, j \in 1..Len(errors) : i < j => 0 < Rank(errors[i]) /\ Rank(errors[i]) < Rank(errors[j])

\* the caught error of a handler: a refused connection or a rejected query
DatastoreFailed(t) == ~task[t].result.ok

rowAsData(row) ==
    [name |-> Str(row.name), address |-> Str(row.address),
     latitude |-> Num(row.latitude), longitude |-> Num(row.longitude)]

(***************************************************************************)
(* C1.  Every row held in the schools table satisfies the four field       *)
(* constraints and would pass validateSchoolInput again.  The code breaks   *)
(* this: the text "0" passes the falsy check, is stored as the number 0,   *)
(* and the number 0 is rejected as missing.                                *)
(***************************************************************************)
C1_StoredRowsPassValidation ==
    \A i \in 1..Len(schools) :
        /\ schools[i].name # <<>> /\ trim(schools[i].name) = schools[i].name
        /\ schools[i].address # <<>> /\ trim(schools[i].address) = schools[i].address
        /\ schools[i].latitude >= -90 /\ schools[i].latitude <= 90
        /\ schools[i].longitude >= -180 /\ schools[i].longitude <= 180
        /\ validateSchoolInput(rowAsData(schools[i])) = <<>>

(***************************************************************************)
(* C2.  An addSchool request whose body misses a field or breaks a range    *)
(* rule is answered 400 with every applicable message, in the order name,  *)
(* address, latitude, longitude; no connection is acquired and the table   *)
(* and the pool are as they were before the request.                       *)
(***************************************************************************)
C2_Defective(data) ==
    \/ ~TextGiven(data.name)
    \/ ~TextGiven(data.address)
    \/ ~InRange(data.latitude, 90)
    \/ ~InRange(data.longitude, 180)

C2_Messages(data, errors) ==
    /\ Ordered(errors)
    /\ Has(errors, NameError) <=> ~TextGiven(data.name)
    /\ Has(errors, AddressError) <=> ~TextGiven(data.address)
    /\ ~ReadsAsNumber(data.latitude) => Has(errors, LatitudeRequired)
    /\ Has(errors, LatitudeRange) <=> OutOfRange(data.latitude, 90)
    /\ ~ReadsAsNumber(data.longitude) => Has(errors, LongitudeRequired)
    /\ Has(errors, LongitudeRange) <=> OutOfRange(data.longitude, 180)

C2_Rejected ==
    \A t \in Handlers :
        (task[t].kind = "add" /\ Active(t) /\ C2_Defective(task[t].input)) =>
            /\ Responded(t)
            /\ task[t].resp.status = 400
            /\ ~task[t].resp.success
            /\ C2_Messages(task[t].input, task[t].resp.errors)
            /\ task[t].acquired = 0
            /\ task[t].queries = 0
            /\ task[t].conn = "none"

C2_NoWrite ==
    \A t \in Handlers :
        (~Responded(t) /\ task'[t].pc = "responded" /\ task'[t].resp.status = 400) =>
            /\ schools' = schools
            /\ autoIncrement' = autoIncrement
            /\ pool' = pool

C2_InvalidAddRejected == []C2_Rejected /\ [][C2_NoWrite]_vars

C2_Witness ==
    \E t \in Handlers :
        /\ task[t].kind = "add"
        /\ Responded(t)
        /\ task[t].input = NoInput
        /\ task[t].resp.errors =
             <<NameError, AddressError, LatitudeRequired, LongitudeRequired>>
        /\ Len(schools) > 0

(***************************************************************************)
(* C3.  An addSchool request with a non-empty name and address, a latitude *)
(* in [-90, 90] and a longitude in [-180, 180], the value 0 included, is   *)
(* answered 201 unless the datastore failed; the row it added holds the    *)
(* trimmed texts and the parsed numbers under the returned schoolId, and   *)
(* no two rows share an id.  The code breaks this for the number 0, which  *)
(* validateSchoolInput reports as missing.                                 *)
(***************************************************************************)
C3_WellFormed(data) ==
    /\ TextGiven(data.name)
    /\ TextGiven(data.address)
    /\ InRange(data.latitude, 90)
    /\ InRange(data.longitude, 180)

C3_RowOf(t) ==
    \E i \in 1..Len(schools) :
        /\ schools[i].id = task[t].resp.schoolId
        /\ schools[i].name = trim(task[t].input.name.s)
        /\ schools[i].address = trim(task[t].input.address.s)
        /\ schools[i].latitude = ValueOf(task[t].input.latitude)
        /\ schools[i].longitude = ValueOf(task[t].input.longitude)

C3_ValidAddSucceeds ==
    /\ \A t \in Handlers :
         (task[t].kind = "add" /\ Responded(t) /\ C3_WellFormed(task[t].input)
            /\ ~DatastoreFailed(t)) =>
              /\ task[t].resp.status = 201
              /\ C3_RowOf(t)
    /\ \A i, j \in 1..Len(schools) : schools[i].id = schools[j].id => i = j

(***************************************************************************)
(* C4.  As claimed: a latitude or longitude of zero, as the number 0 or as *)
(* the text "0", is rejected with 400 by addSchool and by listSchools.     *)
(***************************************************************************)
C4_ZeroRejectedEverywhere ==
    \A t \in Handlers :
        (/\ Responded(t)
         /\ ~DatastoreFailed(t)
         /\ \E v \in {task[t].input.latitude, task[t].input.longitude} :
              NumberZero(v) \/ TextZero(v)) =>
            task[t].resp.status = 400

(***************************************************************************)
(* C4, as amended.  addSchool rejects the number 0 as a missing latitude   *)
(* or longitude (400, "... is required and must be a valid number"); the   *)
(* text "0" is not missing: addSchool accepts it and stores 0, and         *)
(* listSchools, whose parameters are parsed and range-checked only,        *)
(* accepts latitude=0 and longitude=0.                                     *)
(***************************************************************************)
C4_ZeroHandling ==
    \A t \in Handlers :
        Responded(t) =>
            /\ (task[t].kind = "add" /\ NumberZero(task[t].input.latitude)) =>
                 task[t].resp.status = 400 /\ Has(task[t].resp.errors, LatitudeRequired)
            /\ (task[t].kind = "add" /\ NumberZero(task[t].input.longitude)) =>
                 task[t].resp.status = 400 /\ Has(task[t].resp.errors, LongitudeRequired)
            /\ (/\ task[t].kind = "add"
                /\ TextZero(task[t].input.latitude) \/ TextZero(task[t].input.longitude)
                /\ ~NumberZero(task[t].input.latitude)
                /\ ~NumberZero(task[t].input.longitude)
                /\ C3_WellFormed(task[t].input)
                /\ ~DatastoreFailed(t)) =>
                 /\ task[t].resp.status = 201
                 /\ C3_RowOf(t)
            /\ (/\ task[t].kind = "list"
                /\ TextZero(task[t].input.latitude) \/ TextZero(task[t].input.longitude)
                /\ InRange(task[t].input.latitude, 90)
                /\ InRange(task[t].input.longitude, 180)
                /\ ~DatastoreFailed(t)) =>
                 task[t].resp.status = 200

\* the number 0 is being rejected while the table holds a row whose latitude
\* 0 came in as the text "0"
C4_Witness ==
    \E t \in Handlers :
        /\ task[t].kind = "add"
        /\ Responded(t)
        /\ NumberZero(task[t].input.latitude)
        /\ task[t].resp.status = 400
        /\ \E i \in 1..Len(schools) : schools[i].latitude = 0

(***************************************************************************)
(* C5.  A listSchools request with a valid query point is answered 200     *)
(* unless the datastore failed: count is the number of rows the SELECT     *)
(* returned, which are rows of the table in retrieval order; schools holds *)
(* every one of them exactly once with its rounded distance, in            *)
(* non-decreasing order of distance, rows of equal distance in retrieval   *)
(* order.  (These conditions fix the order, so the same request on the     *)
(* same rows gives the same list.)                                         *)
(***************************************************************************)
C5_ValidPoint(q) == InRange(q.latitude, 90) /\ InRange(q.longitude, 180)

\* where the row with this id stands among the rows retrieved
C5_Position(rows, id) == CHOOSE i \in 1..Len(rows) : rows[i].id = id

C5_Sorted(t) ==
    LET rows == task[t].result.rows
        out == task[t].resp.schools
        q == task[t].input
    IN /\ task[t].resp.success
       /\ task[t].resp.count = Len(rows)
       /\ Len(out) = Len(rows)
       /\ Len(rows) <= Len(schools)
       /\ \A i \in 1..Len(rows) : rows[i] = schools[i]
       /\ \A i \in 1..Len(rows) :
            \E j \in 1..Len(out) :
                /\ out[j] = withDistance(rows[i], ValueOf(q.latitude), ValueOf(q.longitude))
                /\ \A k \in 1..Len(out) : out[k].id = rows[i].id => k = j
                /\ out[j].distance =
                     toFixed2(distanceBetween(ValueOf(q.latitude), ValueOf(q.longitude),
                                              rows[i].latitude, rows[i].longitude))
       /\ \A j, k \in 1..Len(out) :
            j < k =>
              /\ out[j].distance <= out[k].distance
              /\ out[j].distance = out[k].distance =>
                   C5_Position(rows, out[j].id) < C5_Position(rows, out[k].id)

C5_ListSorted ==
    \A t \in Handlers :
        (task[t].kind = "list" /\ Responded(t) /\ C5_ValidPoint(task[t].input)
           /\ ~DatastoreFailed(t)) =>
             /\ task[t].resp.status = 200
             /\ C5_Sorted(t)

\* three rows come back in another order than retrieved, two of them at the
\* same distance
C5_Witness ==
    \E t \in Handlers :
        /\ task[t].kind = "list"
        /\ Responded(t)
        /\ task[t].resp.status = 200
        /\ task[t].resp.count = 3
        /\ task[t].resp.schools[1].id # task[t].result.rows[1].id
        /\ \E j \in 1..2 :
             task[t].resp.schools[j].distance = task[t].resp.schools[j + 1].distance

(***************************************************************************)
(* C6.  A listSchools request whose latitude or longitude is missing, does *)
(* not read as a number or is out of range is answered 400 with the one    *)
(* message; the handler acquires no connection and issues no query.        *)
(***************************************************************************)
C6_InvalidListRejected ==
    \A t \in Handlers :
        (task[t].kind = "list" /\ Active(t) /\ ~C5_ValidPoint(task[t].input)) =>
            /\ Responded(t)
            /\ task[t].resp.status = 400
            /\ ~task[t].resp.success
            /\ task[t].resp.message = "Invalid latitude or longitude provided"
            /\ task[t].resp.errors = <<>>
            /\ task[t].acquired = 0
            /\ task[t].queries = 0
            /\ task[t].conn = "none"
            /\ \A i \in 1..Len(pool.queue) : pool.queue[i] # t

C6_Witness ==
    \E t \in Handlers :
        /\ task[t].kind = "list"
        /\ Responded(t)
        /\ task[t].input.latitude = Str(<<"2", "0", "0">>)
        /\ task[t].resp.status = 400
        /\ task[t].acquired = 0

(***************************************************************************)
(* C7.  A handler that acquired a connection has released it when it       *)
(* responds, on the 500 path too, so that with start-up over and every     *)
(* handler answered no connection is out of the pool.  The code breaks     *)
(* this: a rejected query jumps to the catch, past connection.release().   *)
(***************************************************************************)
C7_ConnectionsReleased ==
    /\ \A t \in Handlers :
         Responded(t) =>
           /\ task[t].released = task[t].acquired
           /\ task[t].queries = task[t].acquired
           /\ task[t].conn = "none"
    /\ (task[InitTask].pc = "done" /\ \A t \in Handlers : task[t].pc \in {"idle", "responded"}) =>
         pool.out = 0

(***************************************************************************)
(* C8.  Pool exhaustion only delays: every request that has been received  *)
(* is eventually answered (or the process has exited at start-up).  The    *)
(* code breaks this: with connectionLimit connections leaked by rejected   *)
(* queries (C7), the next request waits in the queue for ever.             *)
(***************************************************************************)
C8_EveryRequestAnswered ==
    \A t \in Handlers :
        (task[t].pc \in {"awaitConnection", "awaitQuery", "awaitResult"})
          ~> (task[t].pc = "responded" \/ ~running)

(***************************************************************************)
(* C9.  When acquiring the connection or running the query fails, the      *)
(* handler answers 500, success false, "Internal server error", once; the  *)
(* response carries the error text only in development mode.               *)
(***************************************************************************)
C9_GenericServerError ==
    \A t \in Handlers :
        /\ (Responded(t) /\ DatastoreFailed(t)) =>
             /\ task[t].resp.status = 500
             /\ ~task[t].resp.success
             /\ task[t].resp.message = "Internal server error"
             /\ task[t].resp.schoolId = 0
             /\ task[t].resp.schools = <<>>
             /\ task[t].responses = 1
             /\ task[t].resp.error \in {<<>>, <<task[t].result.error>>}
             /\ task[t].resp.error # <<>> => NODE_ENV = "development"
        /\ (Active(t) /\ DatastoreFailed(t)) => task[t].resp.status \in {0, 500}
        /\ task[t].responses <= 1

C9_Witness ==
    \E t \in Handlers :
        /\ Responded(t)
        /\ task[t].resp.status = 500
        /\ task[t].resp.error = <<"read ECONNRESET">>
        /\ NODE_ENV = "development"

(***************************************************************************)
(* C10.  No request is handled before the start-up table creation has      *)
(* completed, and a process whose table creation failed has handled none.  *)
(* The code breaks this: app.listen calls back when the server already     *)
(* accepts requests, and only then is initializeDatabase awaited.          *)
(***************************************************************************)
C10_NoRequestBeforeSchema ==
    /\ (\E t \in Handlers : Active(t)) => task[InitTask].pc = "done"
    /\ ~running => \A t \in Handlers : task[t].queries = 0 /\ task[t].responses = 0

====
